---------------------------- MODULE Spec2Model ----------------------------
(***************************************************************************)
(* AI SOC Analyst Copilot backend: the alert/incident store behind the     *)
(* HTTP handlers of backend/app/main.py, and the pure pipeline functions   *)
(* of backend/app/scorer.py and backend/app/explainer.py.                  *)
(*                                                                         *)
(* Units.  Python floats are modelled as scaled integers.  A confidence    *)
(* (0..1) and a risk score (0..100) are both carried in units of 1/10000   *)
(* ("e4"): confidence 0.73 is 7300, risk 78.5 is 785000.  In these units   *)
(* every product of scorer.py is an exact integer, and round(x, 2) is the  *)
(* rounding of a risk to a multiple of 100.                                *)
(*                                                                         *)
(* An alert is a record with the columns of models.Alert that the code     *)
(* reads (message and raw are opaque text that no handler modelled here    *)
(* reads).  NULL is the value of an unset incident_id.                     *)
(***************************************************************************)
EXTENDS Integers, Sequences, FiniteSets, TLC

VARIABLES
    alerts,      \* table "alerts": a set of alert records
    incidents,   \* table "incidents": a set of incident records
    pc,          \* per request thread: where its rebuild_incidents stands
    clusters,    \* per request thread: local `clusters` of rebuild_incidents
    k,           \* per request thread: index of the cluster being persisted
    inc,         \* per request thread: id of the incident just committed
    created,     \* per request thread: local `created` counter
    observed,    \* the listing list_incidents returned in the step just taken
    input,       \* pipeline functions: the alert list handed to them
    output       \* pipeline functions: the last call and what it returned

vars == <<alerts, incidents, pc, clusters, k, inc, created, observed, input, output>>
storeVars == <<alerts, incidents, pc, clusters, k, inc, created, observed>>
coreVars == <<input, output>>

---------------------------------------------------------------------------
(* Bounds of the model.                                                    *)

\* longest alert list handed to the pipeline functions
MaxLen == 6
\* most alerts the store holds at a time
MaxAlerts == 2
\* most "[SIMULATED ACTION]" lines appended to one incident's notes
MaxNotes == 2
\* largest primary key the alerts table hands out
MaxAlertId == 3

---------------------------------------------------------------------------
(* Small helpers.                                                          *)

NULL == 0

Min(a, b) == IF a <= b THEN a ELSE b
Max(a, b) == IF a >= b THEN a ELSE b

Range(s) == {s[i] : i \in DOMAIN s}

RECURSIVE SetMax(_)
SetMax(S) == IF S = {} THEN 0
             ELSE LET x == CHOOSE y \in S : TRUE
                      m == SetMax(S \ {x})
                  IN  IF x >= m THEN x ELSE m

\* Python's conventions for a call: a returned value or a raised exception.
Ret(v) == [raised |-> "none", val |-> v]
Raise(e) == [raised |-> e, val |-> <<>>]

---------------------------------------------------------------------------
(* Alert inputs.  Catalogue is the bounded set of alert payloads the       *)
(* clients send; entry i carries timestamp Catalogue[i].ts, and the        *)
(* timestamps grow with i, so a list of entries with non-decreasing index  *)
(* is a time-ordered alert list.                                           *)

Alert(ts, source, alert_type, severity, user, host, ip, asset_tier) ==
    [id |-> NULL, ts |-> ts, source |-> source, alert_type |-> alert_type,
     severity |-> severity, user |-> user, host |-> host, ip |-> ip,
     asset_tier |-> asset_tier, incident_id |-> NULL]

Catalogue == <<
    Alert(0, "ids",      "c2_outbound",           "low",      "",      "ws1", "10.0.0.5", "normal"),
    Alert(1, "cloud",    "iam_key_created",       "high",     "alice", "",    "",         "important"),
    Alert(2, "endpoint", "suspicious_powershell", "critical", "alice", "ws1", "",         "normal"),
    Alert(3, "cloud",    "s3_public",             "medium",   "",      "",    "",         "normal"),
    Alert(4, "auth",     "impossible_travel",     "info",     "bob",   "",    "",         "unclassified"),
    Alert(5, "dns",      "dns_tunnel",            "high",     "",      "",    "10.0.0.5", "crown_jewel"),
    Alert(8, "ids",      "c2_outbound",           "critical", "bob",   "ws2", "",         "important") >>

---------------------------------------------------------------------------
(* scorer.py                                                               *)

SEV_MAP == [low |-> 15, medium |-> 35, high |-> 60, critical |-> 85]
TIER_BOOST == [normal |-> 0, important |-> 10, crown_jewel |-> 20]

\* dict.get(key, default)
Get(d, key, default) == IF key \in DOMAIN d THEN d[key] ELSE default

\* compute_confidence with the cap on distinct sources at 3 instead of 4
compute_confidence_cap3(alert_list) ==
    LET sources == {alert_list[i].source : i \in DOMAIN alert_list}
        high_count == Cardinality({i \in DOMAIN alert_list :
                                     alert_list[i].severity \in {"high", "critical"}})
        base0 == 4500
        base1 == base0 + 800 * Min(Cardinality(sources), 3)
        base2 == base1 + 600 * Min(high_count, 5)
    IN  Max(500, Min(base2, 9800))

\* compute_confidence(alerts) -> confidence in e4 units
compute_confidence(alert_list) ==
    LET sources == {alert_list[i].source : i \in DOMAIN alert_list}
        high_count == Cardinality({i \in DOMAIN alert_list :
                                     alert_list[i].severity \in {"high", "critical"}})
        base0 == 4500
        base1 == base0 + 800 * Min(Cardinality(sources), 4)
        base2 == base1 + 600 * Min(high_count, 5)
    IN  Max(500, Min(base2, 9800))

\* round(x, 2) of a risk x >= 0 in e4 units: the nearest multiple of 100.
\* A value exactly half way is rounded by the binary representation of the
\* float, which the integer model does not carry: either neighbour.
Round2(x) ==
    LET r == x % 100
    IN  IF r < 50 THEN {x - r}
        ELSE IF r > 50 THEN {x - r + 100}
        ELSE {x - r, x - r + 100}

\* the risk before rounding, for a non-empty list
RiskClamped(alert_list, confidence) ==
    LET max_sev == SetMax({Get(SEV_MAP, alert_list[i].severity, 35) : i \in DOMAIN alert_list})
        tier == SetMax({Get(TIER_BOOST, alert_list[i].asset_tier, 0) : i \in DOMAIN alert_list})
        \* 0.65*max_sev + 0.25*(confidence*100) + 0.10*(tier*5), in e4 units
        risk == (6500 * max_sev) + (25 * confidence) + (1000 * (tier * 5))
    IN  Max(0, Min(risk, 1000000))

\* compute_risk_score without the round(.., 2)
compute_risk_score_unrounded(alert_list, confidence) ==
    IF alert_list = <<>>
    THEN {Raise("ValueError")}
    ELSE {Ret(RiskClamped(alert_list, confidence))}

\* compute_risk_score(alerts, confidence): the set of outcomes of the call.
\* max() of an empty generator without default raises ValueError (line 18).
compute_risk_score(alert_list, confidence) ==
    IF alert_list = <<>>
    THEN {Raise("ValueError")}
    ELSE {Ret(v) : v \in Round2(RiskClamped(alert_list, confidence))}

\* risk_to_label with the thresholds exclusive
risk_to_label_exclusive(risk) ==
    IF risk > 800000 THEN "critical"
    ELSE IF risk > 600000 THEN "high"
    ELSE IF risk > 350000 THEN "medium"
    ELSE "low"

\* risk_to_label(risk), risk in e4 units
risk_to_label(risk) ==
    IF risk >= 800000 THEN "critical"
    ELSE IF risk >= 600000 THEN "high"
    ELSE IF risk >= 350000 THEN "medium"
    ELSE "low"

---------------------------------------------------------------------------
(* explainer.py                                                            *)

GENERIC_HINT == "Suspicious activity detected that may require investigation."

ATTACK_HINTS == [
    iam_key_created |-> "A new cloud access key was created, which can indicate credential abuse or persistence.",
    suspicious_powershell |-> "Suspicious PowerShell execution may indicate attacker living-off-the-land techniques.",
    impossible_travel |-> "A login from an unusual region may indicate stolen credentials or VPN misuse.",
    c2_outbound |-> "Outbound traffic to suspicious infrastructure may indicate command-and-control activity.",
    multiple_failed_logins |-> "Repeated failures may indicate brute force or password spraying.",
    s3_public |-> "Public storage exposure is a common data leak misconfiguration."]

NEXT_ACTIONS == [
    iam_key_created |-> <<"Disable the newly created key", "Rotate credentials for the affected identity", "Review CloudTrail for follow-on actions">>,
    suspicious_powershell |-> <<"Isolate the endpoint", "Collect process tree and PowerShell transcript", "Hunt for similar commands across fleet">>,
    impossible_travel |-> <<"Force password reset / MFA step-up", "Review recent sessions and token issuance", "Check device fingerprint changes">>,
    c2_outbound |-> <<"Block destination IP/domain", "Inspect DNS logs for related domains", "Capture pcap if available">>,
    multiple_failed_logins |-> <<"Enable temporary lockout / rate limit", "Check for sprayed accounts", "Review source IP reputation">>,
    s3_public |-> <<"Revert bucket policy/ACL", "Scan access logs for downloads", "Check for sensitive objects exposure">>]

\* str.replace("_", " ").title() on the alert types of the model
Humanize(t) ==
    CASE t = "c2_outbound" -> "C2 Outbound"
      [] t = "iam_key_created" -> "Iam Key Created"
      [] t = "suspicious_powershell" -> "Suspicious Powershell"
      [] t = "s3_public" -> "S3 Public"
      [] t = "impossible_travel" -> "Impossible Travel"
      [] t = "dns_tunnel" -> "Dns Tunnel"
      [] t = "multiple_failed_logins" -> "Multiple Failed Logins"

\* str.upper() on the severity labels
Upper(s) ==
    CASE s = "low" -> "LOW"
      [] s = "medium" -> "MEDIUM"
      [] s = "high" -> "HIGH"
      [] s = "critical" -> "CRITICAL"

\* sorted() on a set of source strings: the sources of the model in
\* lexicographic order, kept when present
SourcesInOrder == <<"auth", "cloud", "dns", "endpoint", "ids">>
Sorted(S) ==
    LET F[i \in 0..Len(SourcesInOrder)] ==
            IF i = 0 THEN <<>>
            ELSE IF SourcesInOrder[i] \in S THEN Append(F[i - 1], SourcesInOrder[i])
            ELSE F[i - 1]
    IN  F[Len(SourcesInOrder)]

\* the distinct elements of a sequence in first-occurrence order
\* (the key order of a Counter or dict built from it)
Distinct(s) ==
    LET F[i \in 0..Len(s)] ==
            IF i = 0 THEN <<>>
            ELSE IF s[i] \in Range(F[i - 1]) THEN F[i - 1] ELSE Append(F[i - 1], s[i])
    IN  F[Len(s)]

Count(s, x) == Cardinality({i \in DOMAIN s : s[i] = x})

\* [t for t, _ in Counter(types).most_common(n)]: by count, descending;
\* equal counts stay in first-encountered order
RECURSIVE MostCommonFrom(_, _, _)
MostCommonFrom(types, keys, n) ==
    IF n = 0 \/ keys = <<>> THEN <<>>
    ELSE LET best == CHOOSE i \in DOMAIN keys :
                        \A j \in DOMAIN keys :
                            \/ Count(types, keys[i]) > Count(types, keys[j])
                            \/ Count(types, keys[i]) = Count(types, keys[j]) /\ i <= j
             rest == [j \in 1..(Len(keys) - 1) |-> IF j < best THEN keys[j] ELSE keys[j + 1]]
         IN  <<keys[best]>> \o MostCommonFrom(types, rest, n - 1)

most_common(types, n) == MostCommonFrom(types, Distinct(types), n)

\* next((a.get(field, "") for a in alerts if a.get(field)), "")
FirstNonEmpty(alert_list, field) ==
    LET idx == {i \in DOMAIN alert_list : alert_list[i][field] # ""}
    IN  IF idx = {} THEN ""
        ELSE alert_list[CHOOSE i \in idx : \A j \in idx : i <= j][field]

\* build_title(alerts): the parts that " | ".join puts together.
\* Counter(types).most_common(1)[0] of an empty list raises IndexError.
build_title(alert_list) ==
    IF alert_list = <<>>
    THEN Raise("IndexError")
    ELSE LET types == [i \in DOMAIN alert_list |-> alert_list[i].alert_type]
             top == most_common(types, 1)[1]
             user == FirstNonEmpty(alert_list, "user")
             host == FirstNonEmpty(alert_list, "host")
         IN  Ret(<< <<Humanize(top)>> >>
                 \o (IF user # "" THEN << <<"user=", user>> >> ELSE <<>>)
                 \o (IF host # "" THEN << <<"host=", host>> >> ELSE <<>>))

\* the recommendations of explain_incident before the [:6] cut
Recs(top_types) ==
    LET F[i \in 0..Len(top_types)] ==
            IF i = 0 THEN <<>>
            ELSE F[i - 1] \o Get(NEXT_ACTIONS, top_types[i], <<>>)
    IN  Distinct(F[Len(top_types)])

\* explain_incident listing every recommendation instead of recs[:6]
explain_incident_uncut(alert_list, severity, confidence, risk_score) ==
    LET types == [i \in DOMAIN alert_list |-> alert_list[i].alert_type]
        sources == Sorted({alert_list[i].source : i \in DOMAIN alert_list})
        top_types == most_common(types, 3)
        recs == Recs(top_types)
        signals == [i \in DOMAIN top_types |->
                      <<"- ", top_types[i], ": ", Get(ATTACK_HINTS, top_types[i], GENERIC_HINT)>>]
        actions == [i \in 1..Len(recs) |-> <<"- ", recs[i]>>]
    IN  {Ret(<< <<"Incident severity: ", Upper(severity), " | risk score: ", risk_score,
                  "/100 | confidence: ", c2>>,
                <<"Signals observed from sources: ", sources>>,
                <<"Key signals:">> >>
             \o signals
             \o << <<"Recommended next actions (ranked):">> >>
             \o actions) : c2 \in Round2(confidence)}

\* explain_incident(alerts, severity, confidence, risk_score): the bullets
\* that "\n".join puts together; one outcome per outcome of round(confidence, 2)
explain_incident(alert_list, severity, confidence, risk_score) ==
    LET types == [i \in DOMAIN alert_list |-> alert_list[i].alert_type]
        sources == Sorted({alert_list[i].source : i \in DOMAIN alert_list})
        top_types == most_common(types, 3)
        recs == Recs(top_types)
        signals == [i \in DOMAIN top_types |->
                      <<"- ", top_types[i], ": ", Get(ATTACK_HINTS, top_types[i], GENERIC_HINT)>>]
        actions == [i \in 1..Min(Len(recs), 6) |-> <<"- ", recs[i]>>]
    IN  {Ret(<< <<"Incident severity: ", Upper(severity), " | risk score: ", risk_score,
                  "/100 | confidence: ", c2>>,
                <<"Signals observed from sources: ", sources>>,
                <<"Key signals:">> >>
             \o signals
             \o << <<"Recommended next actions (ranked):">> >>
             \o actions) : c2 \in Round2(confidence)}

---------------------------------------------------------------------------
(* correlate.py: correlate_alerts.  The file is not part of the sources at *)
(* hand; the operator follows section 4.1 of the specification: one pass   *)
(* over the time-ordered alerts, each alert joining the most recently      *)
(* active cluster that matches it (a shared non-empty user, host or ip, or *)
(* the same alert_type) and whose last-added alert is at most Window time  *)
(* units older, and opening a new cluster otherwise.                       *)

Window == 2

Last(s) == s[Len(s)]

SameKey(a, b) ==
    \/ a.user # "" /\ a.user = b.user
    \/ a.host # "" /\ a.host = b.host
    \/ a.ip # "" /\ a.ip = b.ip
    \/ a.alert_type = b.alert_type

\* the clusters matching alert_list[i], as indices into cs; a cluster is
\* the sequence of the positions of its alerts in alert_list
Candidates(alert_list, cs, i) ==
    {j \in DOMAIN cs :
        /\ alert_list[i].ts - alert_list[Last(cs[j])].ts <= Window
        /\ \E m \in Range(cs[j]) : SameKey(alert_list[m], alert_list[i])}

\* correlate_alerts joining every matching cluster instead of one
correlate_alerts_join_all(alert_list) ==
    LET F[i \in 0..Len(alert_list)] ==
            IF i = 0 THEN <<>>
            ELSE LET cs == F[i - 1]
                     cand == Candidates(alert_list, cs, i)
                 IN  IF cand = {} THEN Append(cs, <<i>>)
                     ELSE [j \in DOMAIN cs |-> IF j \in cand THEN Append(cs[j], i) ELSE cs[j]]
        cs == F[Len(alert_list)]
    IN  [j \in DOMAIN cs |-> [m \in DOMAIN cs[j] |-> alert_list[cs[j][m]]]]

\* correlate_alerts(alert_dicts) -> list of clusters (lists of alert dicts)
correlate_alerts(alert_list) ==
    LET F[i \in 0..Len(alert_list)] ==
            IF i = 0 THEN <<>>
            ELSE LET cs == F[i - 1]
                     cand == Candidates(alert_list, cs, i)
                 IN  IF cand = {} THEN Append(cs, <<i>>)
                     ELSE LET j == CHOOSE x \in cand : \A y \in cand : Last(cs[x]) >= Last(cs[y])
                          IN  [cs EXCEPT ![j] = Append(@, i)]
        cs == F[Len(alert_list)]
    IN  [j \in DOMAIN cs |-> [m \in DOMAIN cs[j] |-> alert_list[cs[j][m]]]]

---------------------------------------------------------------------------
(* The pipeline functions called on their own: an alert list is built one  *)
(* alert at a time in time order, and any function may be called on it.    *)

NoCall == [fn |-> "none", args |-> <<>>, out |-> Ret(<<>>)]

\* confidences handed to compute_risk_score, in e4 units: values
\* compute_confidence returns, values between hundredths, and values
\* outside [0, 1]
ConfInputs == {0 - 30000, 0, 500, 4500, 7300, 7301, 7302, 9800, 50000}

\* (severity, confidence, risk_score) handed to explain_incident
ExplainInputs == {<<"high", 7300, 785000>>, <<"low", 4550, 97500>>}

AppendAlert(i) ==
    /\ Len(input) < MaxLen
    /\ input # <<>> => Catalogue[i].ts >= Last(input).ts
    /\ input' = Append(input, [Catalogue[i] EXCEPT !.id = Len(input) + 1])
    /\ output' = NoCall
    /\ UNCHANGED storeVars

CallCorrelate ==
    /\ output' = [fn |-> "correlate_alerts", args |-> <<>>, out |-> Ret(correlate_alerts(input))]
    /\ UNCHANGED <<input, storeVars>>

CallConfidence ==
    /\ output' = [fn |-> "compute_confidence", args |-> <<>>, out |-> Ret(compute_confidence(input))]
    /\ UNCHANGED <<input, storeVars>>

CallRisk(c) ==
    /\ \E o \in compute_risk_score(input, c) :
          output' = [fn |-> "compute_risk_score", args |-> <<c>>, out |-> o]
    /\ UNCHANGED <<input, storeVars>>

CallTitle ==
    /\ output' = [fn |-> "build_title", args |-> <<>>, out |-> build_title(input)]
    /\ UNCHANGED <<input, storeVars>>

CallExplain(p) ==
    /\ \E o \in explain_incident(input, p[1], p[2], p[3]) :
          output' = [fn |-> "explain_incident", args |-> p, out |-> o]
    /\ UNCHANGED <<input, storeVars>>

\* risks handed to risk_to_label, in e4 units: the ends of [0, 100] and
\* the two hundredths around each threshold
LabelInputs == {0, 349900, 350000, 599900, 600000, 799900, 800000, 1000000}

CallLabel(r) ==
    /\ output' = [fn |-> "risk_to_label", args |-> <<r>>, out |-> Ret(risk_to_label(r))]
    /\ UNCHANGED <<input, storeVars>>

NextCore ==
    \/ \E i \in DOMAIN Catalogue : AppendAlert(i)
    \/ \E r \in LabelInputs : CallLabel(r)
    \/ CallCorrelate
    \/ CallConfidence
    \/ \E c \in ConfInputs : CallRisk(c)
    \/ CallTitle
    \/ \E p \in ExplainInputs : CallExplain(p)

Init ==
    /\ alerts = {}
    /\ incidents = {}
    /\ pc = [w \in {1, 2} |-> "idle"]
    /\ clusters = [w \in {1, 2} |-> <<>>]
    /\ k = [w \in {1, 2} |-> 0]
    /\ inc = [w \in {1, 2} |-> NULL]
    /\ created = [w \in {1, 2} |-> 0]
    /\ observed = {}
    /\ input = <<>>
    /\ output = NoCall

SpecCore == Init /\ [][NextCore]_vars

---------------------------------------------------------------------------
(* Claims about the pipeline functions (checked under SpecCore).           *)

\* every (cluster, position) at which alert a occurs in a list of clusters
Occurrences(cs, a) ==
    {p \in {<<j, m>> : j \in DOMAIN cs, m \in 1..MaxLen + 1} :
        p[2] \in DOMAIN cs[p[1]] /\ cs[p[1]][p[2]] = a}

\* C1: the clusters correlate_alerts returns for a time-ordered alert list
\* partition it: every input alert occurs in exactly one cluster, exactly
\* once; every clustered alert is an input alert; no cluster is empty.
C1_CorrelatePartitions ==
    output.fn = "correlate_alerts" =>
        LET cs == output.out.val
        IN  /\ output.out.raised = "none"
            /\ \A j \in DOMAIN cs : cs[j] # <<>>
            /\ \A i \in DOMAIN input : Cardinality(Occurrences(cs, input[i])) = 1
            /\ \A j \in DOMAIN cs : Range(cs[j]) \subseteq Range(input)

\* C1 witness: correlate_alerts has returned several clusters, one of them
\* with several alerts, for a list in which an alert matched two clusters.
C1_Witness ==
    /\ output.fn = "correlate_alerts"
    /\ Len(output.out.val) >= 2
    /\ \E j \in DOMAIN output.out.val : Len(output.out.val[j]) >= 2
    /\ \E i \in DOMAIN input :
          \E a, b \in 1..(i - 1) :
              /\ a # b
              /\ SameKey(input[a], input[i]) /\ SameKey(input[b], input[i])
              /\ ~SameKey(input[a], input[b])
              /\ input[i].ts - input[a].ts <= Window

\* C8: on an empty alert list compute_confidence, compute_risk_score,
\* build_title and explain_incident each return a value and none raises;
\* the confidence returned is the lowest confidence of any list.
C8_TotalOnEmpty ==
    (input = <<>> /\ output.fn \in {"compute_confidence", "compute_risk_score",
                                    "build_title", "explain_incident"}) =>
        /\ output.out.raised = "none"
        /\ output.fn = "compute_confidence" =>
              \A i \in DOMAIN Catalogue : output.out.val <= compute_confidence(<<Catalogue[i]>>)

\* d and h of claim C9, counted from the input list
C9_d == Cardinality({s \in Range(SourcesInOrder) : \E i \in DOMAIN input : input[i].source = s})
C9_h == Len(SelectSeq(input, LAMBDA a : a.severity = "high" \/ a.severity = "critical"))
\* the formula of claim C9, in hundredths
C9_Hundredths(d, h) ==
    LET raw == 45 + 8 * (IF d < 4 THEN d ELSE 4) + 6 * (IF h < 5 THEN h ELSE 5)
    IN  IF raw < 5 THEN 5 ELSE IF raw > 98 THEN 98 ELSE raw

\* C9: compute_confidence returns 0.45 + 0.08*min(d,4) + 0.06*min(h,5)
\* clamped to [0.05, 0.98]; the result lies in [0.05, 0.98] and does not
\* decrease when an alert (hence d or h) is added.
C9_ConfidenceFormula ==
    output.fn = "compute_confidence" =>
        /\ output.out.raised = "none"
        /\ output.out.val = 100 * C9_Hundredths(C9_d, C9_h)
        /\ output.out.val >= 500 /\ output.out.val <= 9800
        /\ \A i \in DOMAIN Catalogue :
              compute_confidence(Append(input, Catalogue[i])) >= output.out.val
        /\ \A d2 \in C9_d..(C9_d + 1), h2 \in C9_h..(C9_h + 1) :
              C9_Hundredths(d2, h2) >= C9_Hundredths(C9_d, C9_h)

\* C9 witness: compute_confidence was called on a cluster with at least 4
\* distinct sources and 6 high/critical alerts, where both caps and the
\* upper clamp act.
C9_Witness ==
    /\ output.fn = "compute_confidence"
    /\ C9_d >= 4
    /\ C9_h >= 6
    /\ output.out.val = 9800

\* W and B of claim C10, from the claim's tables
C10_Weight(sev) ==
    CASE sev = "low" -> 15 [] sev = "medium" -> 35 [] sev = "high" -> 60
      [] sev = "critical" -> 85 [] OTHER -> 35
C10_Boost(tier) ==
    CASE tier = "normal" -> 0 [] tier = "important" -> 10 [] tier = "crown_jewel" -> 20
      [] OTHER -> 0
C10_W == CHOOSE w \in {C10_Weight(input[i].severity) : i \in DOMAIN input} :
            \A i \in DOMAIN input : C10_Weight(input[i].severity) <= w
C10_B == CHOOSE b \in {C10_Boost(input[i].asset_tier) : i \in DOMAIN input} :
            \A i \in DOMAIN input : C10_Boost(input[i].asset_tier) <= b
\* 0.65*W + 0.25*(100*c) + 0.10*(5*B) clamped to [0,100], in e4 units
C10_Exact ==
    LET raw == 6500 * C10_W + 25 * output.args[1] + 5000 * C10_B
    IN  IF raw < 0 THEN 0 ELSE IF raw > 1000000 THEN 1000000 ELSE raw

\* C10 as stated: for a non-empty cluster compute_risk_score returns
\* exactly 0.65*W + 0.25*(100*c) + 0.10*(5*B) clamped to [0,100].
C10_RiskIsExactFormula ==
    (output.fn = "compute_risk_score" /\ input # <<>>) =>
        /\ output.out.raised = "none"
        /\ output.out.val = C10_Exact

\* C10 amended: for a non-empty cluster compute_risk_score returns that
\* clamped value rounded to 2 decimals: a whole number of hundredths at
\* most 0.005 away from it, and the value itself when it already is one
\* (max severity critical, tier important, c = 0.73 gives 78.5, labelled
\* high).
C10_RiskIsRoundedFormula ==
    (output.fn = "compute_risk_score" /\ input # <<>>) =>
        /\ output.out.raised = "none"
        /\ output.out.val % 100 = 0
        /\ output.out.val - C10_Exact <= 50
        /\ C10_Exact - output.out.val <= 50
        /\ output.out.val >= 0 /\ output.out.val <= 1000000
        /\ (C10_Exact % 100 = 0) => output.out.val = C10_Exact
        /\ (C10_W = 85 /\ C10_B = 10 /\ output.args[1] = 7300) =>
              output.out.val = 785000 /\ risk_to_label(output.out.val) = "high"

\* C10 witness: compute_risk_score was called on the three-alert cluster of
\* the example (max severity critical, tier important) with a confidence
\* between two hundredths, 0.7301, and returned 78.5.
C10_Witness ==
    /\ output.fn = "compute_risk_score"
    /\ Len(input) = 3
    /\ C10_W = 85 /\ C10_B = 10
    /\ output.args = <<7301>>
    /\ output.out.val = 785000

\* the labels in increasing order of gravity
C11_Rank(label) ==
    CASE label = "low" -> 1 [] label = "medium" -> 2 [] label = "high" -> 3
      [] label = "critical" -> 4 [] OTHER -> 0

\* C11: risk_to_label maps a risk in [0,100] to exactly one label with
\* inclusive lower bounds (>= 80 critical, >= 60 high, >= 35 medium, else
\* low; 79.99 high, 80.0 critical, 59.99 medium, 60.0 high, 34.99 low,
\* 35.0 medium), and a larger risk never gets a lower label.
C11_LabelThresholds ==
    output.fn = "risk_to_label" =>
        LET r == output.args[1]
            label == output.out.val
        IN  /\ output.out.raised = "none"
            /\ label = "critical" <=> r >= 800000
            /\ label = "high" <=> (600000 <= r /\ r < 800000)
            /\ label = "medium" <=> (350000 <= r /\ r < 600000)
            /\ label = "low" <=> r < 350000
            /\ r = 799900 => label = "high"
            /\ r = 800000 => label = "critical"
            /\ r = 599900 => label = "medium"
            /\ r = 600000 => label = "high"
            /\ r = 349900 => label = "low"
            /\ r = 350000 => label = "medium"
            /\ \A r2 \in LabelInputs :
                  r2 >= r => C11_Rank(risk_to_label(r2)) >= C11_Rank(label)

\* C11 witness: risk_to_label was called on exactly 80.0 and returned
\* critical.
C11_Witness ==
    /\ output.fn = "risk_to_label"
    /\ output.args = <<800000>>
    /\ output.out.val = "critical"

\* the alert types of the input list, and how they rank: by number of
\* alerts, the type met first before another with as many alerts
C12_Types == {input[i].alert_type : i \in DOMAIN input}
C12_Alerts(t) == {i \in DOMAIN input : input[i].alert_type = t}
C12_First(t) == CHOOSE i \in C12_Alerts(t) : \A j \in C12_Alerts(t) : i <= j
C12_Before(t, u) ==
    \/ Cardinality(C12_Alerts(t)) > Cardinality(C12_Alerts(u))
    \/ Cardinality(C12_Alerts(t)) = Cardinality(C12_Alerts(u)) /\ C12_First(t) < C12_First(u)
C12_Rank == [t \in C12_Types |-> 1 + Cardinality({u \in C12_Types : C12_Before(u, t)})]
\* the walk over the recognized types among the top 3: <<rank of the type,
\* position in its table entry, action>>
C12_Walk ==
    LET rank == C12_Rank
    IN  UNION {{<<rank[t], n, NEXT_ACTIONS[t][n]>> : n \in DOMAIN NEXT_ACTIONS[t]} :
                 t \in {u \in C12_Types \cap DOMAIN NEXT_ACTIONS : rank[u] <= 3}}
C12_Top == {t \in C12_Types : C12_Rank[t] <= 3}
C12_Earlier(p, q) == p[1] < q[1] \/ (p[1] = q[1] /\ p[2] < q[2])
\* where an action is first met on a walk
C12_FirstMet(walk, a) ==
    CHOOSE p \in walk : p[3] = a /\ \A q \in walk : q[3] = a => ~C12_Earlier(q, p)
\* the action strings of the recommended-actions block of a summary
C12_Header(summary) ==
    CHOOSE i \in DOMAIN summary : summary[i] = <<"Recommended next actions (ranked):">>
C12_Actions(summary) ==
    LET h == C12_Header(summary)
    IN  [i \in 1..(Len(summary) - h) |-> summary[h + i][2]]
\* the key-signals block of a summary
C12_Signals(summary) ==
    LET h == C12_Header(summary)
    IN  {summary[i] : i \in 4..(h - 1)}

\* C12: for a non-empty cluster the recommended-actions block of
\* explain_incident has at most 6 actions, no action twice, and the actions
\* in the order in which they are first met when walking the (up to 3) most
\* frequent alert types from most to least frequent.
C12_ActionsBlock ==
    (output.fn = "explain_incident" /\ input # <<>>) =>
        /\ output.out.raised = "none"
        /\ LET acts == C12_Actions(output.out.val)
               walk == C12_Walk
           IN  /\ Len(acts) <= 6
               /\ \A i, j \in DOMAIN acts : i # j => acts[i] # acts[j]
               /\ \A i \in DOMAIN acts : \E p \in walk : p[3] = acts[i]
               /\ \A i \in 1..(Len(acts) - 1) :
                     C12_Earlier(C12_FirstMet(walk, acts[i]), C12_FirstMet(walk, acts[i + 1]))

\* C12 witness: explain_incident was called on a cluster with three
\* distinct recognized alert types, nine actions in all, and listed six.
C12_Witness ==
    /\ output.fn = "explain_incident"
    /\ Cardinality(C12_Walk) = 9
    /\ Len(C12_Actions(output.out.val)) = 6

\* C13: for every alert type among the top 3 of a cluster that is absent
\* from the static tables, the key-signals block carries the generic hint
\* for it and the recommended-actions block carries a fallback action for
\* it (an action beyond those of the recognized types, while the block has
\* room), so a cluster made only of unrecognized types still gets a
\* non-empty recommended-actions list.
C13_UnknownTypeFallback ==
    (output.fn = "explain_incident" /\ input # <<>>) =>
        /\ output.out.raised = "none"
        /\ LET acts == C12_Actions(output.out.val)
               known == {p[3] : p \in C12_Walk}
           IN  /\ \A t \in C12_Top \ DOMAIN ATTACK_HINTS :
                     <<"- ", t, ": ", GENERIC_HINT>> \in C12_Signals(output.out.val)
               /\ \A t \in C12_Top \ DOMAIN NEXT_ACTIONS :
                     Len(acts) < 6 => Range(acts) \ known # {}
               /\ C12_Top \cap DOMAIN NEXT_ACTIONS = {} => acts # <<>>

---------------------------------------------------------------------------
(* The store: models.py and the handlers of main.py.                       *)
(*                                                                         *)
(* An incident record carries the columns of models.Incident (created_at   *)
(* only orders listings and is left out) and one auxiliary field,          *)
(* `cluster`: the ids of the alerts of the cluster it was created for,     *)
(* which no handler reads.  analyst_notes is the sequence of the pieces    *)
(* appended to it; title and summary are the sequences build_title and     *)
(* explain_incident return.                                                *)

Threads == {1, 2}

\* the next INTEGER PRIMARY KEY of a table (config.py: SQLite): one more
\* than the largest id in it
NextId(table) == SetMax({r.id : r \in table}) + 1

\* _alert_to_dict(a)
AlertToDict(a) ==
    [a EXCEPT !.user = IF @ = "" THEN "" ELSE @,
              !.host = IF @ = "" THEN "" ELSE @,
              !.ip = IF @ = "" THEN "" ELSE @,
              !.asset_tier = IF @ = "" THEN "normal" ELSE @]

\* db.delete(inc) for every incident, then commit: the relationship
\* Incident.alerts has cascade="all, delete-orphan", so deleting an
\* incident deletes the alerts linked to it.  What is left of `alerts`.
DeleteIncidents(als, incs) ==
    {a \in als : a.incident_id \notin {i.id : i \in incs}}

\* select(Alert).order_by(Alert.ts.asc()): by ts, equal ts in id order
RECURSIVE SortByTs(_)
SortByTs(als) ==
    IF als = {} THEN <<>>
    ELSE LET first == CHOOSE a \in als :
                        \A b \in als : a.ts < b.ts \/ (a.ts = b.ts /\ a.id <= b.id)
         IN  <<first>> \o SortByTs(als \ {first})

\* lines 111-114: the clusters of the alerts now in the store
ClustersOf(als) ==
    LET sorted == SortByTs(als)
    IN  correlate_alerts([i \in DOMAIN sorted |-> AlertToDict(sorted[i])])

ClusterIds(cluster) == {cluster[i].id : i \in {j \in DOMAIN cluster : cluster[j].id # NULL}}

\* lines 118-136: the incident rows that may be committed for a cluster
NewIncident(incs, cluster) ==
    LET conf == compute_confidence(cluster)
        title == build_title(cluster)
    IN  UNION {
          {[id |-> NextId(incs), title |-> title.val, summary |-> summary.val,
            severity |-> risk_to_label(risk.val), confidence |-> conf,
            risk_score |-> risk.val, status |-> "open", analyst_verdict |-> "unknown",
            analyst_notes |-> <<>>, cluster |-> ClusterIds(cluster)] :
              summary \in explain_incident(cluster, risk_to_label(risk.val), conf, risk.val)} :
          risk \in compute_risk_score(cluster, conf)}

\* attaching only the first alert of the cluster
LinkAlerts_first_only(als, cluster, inc_id) ==
    {IF cluster # <<>> /\ a.id = cluster[1].id THEN [a EXCEPT !.incident_id = inc_id] ELSE a : a \in als}

\* lines 139-144: attach the alerts of the cluster that are (still) in the
\* table to the incident
LinkAlerts(als, cluster, inc_id) ==
    {IF a.id \in ClusterIds(cluster) THEN [a EXCEPT !.incident_id = inc_id] ELSE a : a \in als}

\* lines 116-146, the loop over the clusters: the stores <<alerts,
\* incidents>> it may end in
RECURSIVE PersistAll(_, _, _)
PersistAll(als, incs, cs) ==
    IF cs = <<>> THEN {<<als, incs>>}
    ELSE UNION {PersistAll(LinkAlerts(als, Head(cs), row.id), incs \cup {row}, Tail(cs)) :
                  row \in NewIncident(incs, Head(cs))}

\* db.get(Incident, incident_id)
HasIncident(id) == \E i \in incidents : i.id = id
GetIncident(id) == CHOOSE i \in incidents : i.id = id

(* POST /alerts *)
StoreInputs == {1, 2, 3}

IngestAlert(i) ==
    /\ Cardinality(alerts) < MaxAlerts
    /\ NextId(alerts) <= MaxAlertId
    /\ alerts' = alerts \cup {[Catalogue[i] EXCEPT !.id = NextId(alerts)]}
    /\ observed' = {}
    /\ output' = NoCall
    /\ UNCHANGED <<incidents, pc, clusters, k, inc, created, input>>

(* POST /incidents/rebuild, run from start to end with no other request    *)
(* in between                                                              *)
RebuildIncidents ==
    LET left == DeleteIncidents(alerts, incidents)
        cs == ClustersOf(left)
    IN  /\ \E end \in PersistAll(left, {}, cs) :
              /\ alerts' = end[1]
              /\ incidents' = end[2]
        /\ output' = NoCall
        /\ UNCHANGED <<pc, clusters, k, inc, created, observed, input>>

(* PATCH /incidents/{incident_id} *)

\* schemas.py: Severity and Status
Severity == {"low", "medium", "high", "critical"}
Status == {"open", "in_progress", "closed"}

\* request bodies of the model; a body is a function from keys to values
Patches == {
    [status |-> "open"], [status |-> "in_progress"], [status |-> "closed"],
    [status |-> "triaged"],
    [analyst_notes |-> <<"reviewed">>, analyst_verdict |-> "true_positive", status |-> "closed"],
    [title |-> << <<"Renamed">> >>, severity |-> "low", source |-> "siem",
     description |-> "escalated"] }

\* pydantic's validation of a body as IncidentUpdate
ValidUpdate(body) ==
    /\ "severity" \in DOMAIN body => body.severity \in Severity
    /\ "status" \in DOMAIN body => body.status \in Status

\* model_dump keeping the keys IncidentUpdate does not declare
model_dump_keep_extra(body) == body

\* IncidentUpdate(**body).model_dump(exclude_unset=True): the declared
\* fields the body sets; other keys of the body are ignored
model_dump(body) ==
    [f \in DOMAIN body \cap {"title", "severity", "status", "source", "description"} |-> body[f]]

\* for k, v in data.items(): setattr(inc, k, v), then commit: an attribute
\* that is a column of Incident is written, any other is lost
SetAttrs(row, data) ==
    [c \in DOMAIN row |-> IF c \in DOMAIN data /\ c \notin {"id", "cluster"} THEN data[c] ELSE row[c]]

UpdateIncident(incident_id, body) ==
    /\ IF ~ValidUpdate(body)
       THEN UNCHANGED incidents                        \* 422
       ELSE IF ~HasIncident(incident_id)
       THEN UNCHANGED incidents                        \* 404
       ELSE incidents' = (incidents \ {GetIncident(incident_id)})
                            \cup {SetAttrs(GetIncident(incident_id), model_dump(body))}
    /\ UNCHANGED <<alerts, pc, clusters, k, inc, created, observed, coreVars>>

(* POST /incidents/{incident_id}/simulate_remediate *)
Remediations == {[action |-> "block_ip"], [action |-> ""], [comment |-> "no action"]}

\* f"\n[SIMULATED ACTION] {action} executed."
SimulatedLine(action) == <<"\n[SIMULATED ACTION] ", action, " executed.">>

\* simulate_remediate setting the status to triaged whatever it was
SimulateRemediate_always_triaged(incident_id, payload) ==
    LET action == IF "action" \in DOMAIN payload THEN payload.action ELSE ""
    IN  /\ IF ~HasIncident(incident_id)
           THEN UNCHANGED incidents                    \* 404
           ELSE IF action = ""
           THEN UNCHANGED incidents                    \* 400
           ELSE LET row == GetIncident(incident_id)
                IN  /\ Len(row.analyst_notes) < MaxNotes
                    /\ incidents' = (incidents \ {row}) \cup
                          {[row EXCEPT !.analyst_notes = Append(@, SimulatedLine(action)),
                                       !.status = "triaged"]}
        /\ UNCHANGED <<alerts, pc, clusters, k, inc, created, observed, coreVars>>

\* simulate_remediate(incident_id, payload)
SimulateRemediate(incident_id, payload) ==
    LET action == IF "action" \in DOMAIN payload THEN payload.action ELSE ""
    IN  /\ IF ~HasIncident(incident_id)
           THEN UNCHANGED incidents                    \* 404
           ELSE IF action = ""
           THEN UNCHANGED incidents                    \* 400
           ELSE LET row == GetIncident(incident_id)
                IN  /\ Len(row.analyst_notes) < MaxNotes
                    /\ incidents' = (incidents \ {row}) \cup
                          {[row EXCEPT !.analyst_notes = Append(@, SimulatedLine(action)),
                                       !.status = IF @ = "open" THEN "triaged" ELSE @]}
        /\ UNCHANGED <<alerts, pc, clusters, k, inc, created, observed, coreVars>>

\* incident ids a request may name: those in use and one that is not
RequestIds == 1..(MaxAlerts + 1)

Next ==
    \/ \E i \in StoreInputs : IngestAlert(i)
    \/ RebuildIncidents
    \/ \E id \in RequestIds, body \in Patches : UpdateIncident(id, body)
    \/ \E id \in RequestIds, payload \in Remediations : SimulateRemediate(id, payload)

Spec == Init /\ [][Next]_vars

---------------------------------------------------------------------------
(* GET /incidents/{incident_id}/playbook.  playbooks.py is not part of the *)
(* sources at hand; PLAYBOOKS follows section 4.4 of the specification: a  *)
(* static table from alert type to steps, each an action/risk/impact       *)
(* triple, in which two types may name the same action.                    *)

PLAYBOOKS == [
    c2_outbound |-> <<[action |-> "block_ip", risk |-> "low", impact |-> "traffic to the destination is dropped"],
                      [action |-> "isolate_host", risk |-> "medium", impact |-> "host is cut from the network"]>>,
    iam_key_created |-> <<[action |-> "disable_key", risk |-> "low", impact |-> "key stops working"],
                          [action |-> "rotate_credentials", risk |-> "low", impact |-> "identity must re-authenticate"]>>,
    suspicious_powershell |-> <<[action |-> "isolate_host", risk |-> "high", impact |-> "endpoint is quarantined"],
                                [action |-> "rotate_credentials", risk |-> "medium", impact |-> "user sessions are revoked"]>>]

\* the orders in which `for t in types` may go through a set of strings
Perms(S) == {f \in [1..Cardinality(S) -> S] : \A x \in S : \E n \in 1..Cardinality(S) : f[n] = x}

\* lines 262-264: the steps of the types, in iteration order
PlaybookSteps(order) ==
    LET F[i \in 0..Len(order)] ==
            IF i = 0 THEN <<>>
            ELSE F[i - 1] \o Get(PLAYBOOKS, order[i], <<>>)
    IN  F[Len(order)]

\* get_playbook returning the steps as concatenated, without the
\* de-duplication
get_playbook_no_dedup(order) == PlaybookSteps(order)

\* lines 262-274 of get_playbook: the steps returned when the set of types
\* is gone through in `order`
get_playbook(order) ==
    LET steps == PlaybookSteps(order)
        D[i \in 0..Len(steps)] ==
            IF i = 0 THEN <<>>
            ELSE IF steps[i].action = ""
                    \/ \E n \in DOMAIN D[i - 1] : D[i - 1][n].action = steps[i].action
                 THEN D[i - 1]
                 ELSE Append(D[i - 1], steps[i])
    IN  D[Len(steps)]

\* the response carries, besides the steps, the order in which the types
\* were gone through (auxiliary)
GetPlaybook(incident_id) ==
    /\ IF ~HasIncident(incident_id)
       THEN output' = [fn |-> "get_playbook", args |-> <<incident_id>>,
                       out |-> Raise("HTTPException")]            \* 404
       ELSE LET types == {a.alert_type : a \in {b \in alerts : b.incident_id = incident_id
                                                                /\ b.alert_type # ""}}
            IN  \E order \in Perms(types) :
                    output' = [fn |-> "get_playbook", args |-> <<incident_id, order>>,
                               out |-> Ret(get_playbook(order))]
    /\ UNCHANGED <<input, storeVars>>

PlaybookInputs == {1, 2, 3, 4}

NextPlaybook ==
    \/ \E i \in PlaybookInputs : IngestAlert(i)
    \/ RebuildIncidents
    \/ \E id \in RequestIds : GetPlaybook(id)

SpecPlaybook == Init /\ [][NextPlaybook]_vars

---------------------------------------------------------------------------
(* Requests served at the same time.  FastAPI runs each `def` handler in a *)
(* worker thread of its own and main.py takes no lock, so the handlers of  *)
(* two requests interleave; each db.commit() of rebuild_incidents makes    *)
(* what precedes it visible to the other requests, and is one step here.   *)

Set(f, w, v) == [f EXCEPT ![w] = v]

\* lines 106-109: delete every incident, commit
RebuildDelete(w) ==
    /\ pc[w] = "idle"
    /\ alerts' = DeleteIncidents(alerts, incidents)
    /\ incidents' = {}
    /\ pc' = Set(pc, w, "read")
    /\ observed' = {}
    /\ UNCHANGED <<clusters, k, inc, created, coreVars>>

\* lines 111-116: read the alerts, cluster them; with no cluster the loop
\* is skipped and the handler returns (line 148)
RebuildRead(w) ==
    /\ pc[w] = "read"
    /\ LET cs == ClustersOf(alerts)
       IN  IF cs = <<>>
           THEN /\ pc' = Set(pc, w, "idle")
                /\ UNCHANGED <<clusters, k>>
           ELSE /\ pc' = Set(pc, w, "add")
                /\ clusters' = Set(clusters, w, cs)
                /\ k' = Set(k, w, 1)
    /\ observed' = {}
    /\ UNCHANGED <<alerts, incidents, inc, created, coreVars>>

\* lines 118-136: score the cluster, add the incident row, commit
RebuildAdd(w) ==
    /\ pc[w] = "add"
    /\ \E row \in NewIncident(incidents, clusters[w][k[w]]) :
          /\ incidents' = incidents \cup {row}
          /\ inc' = Set(inc, w, row.id)
    /\ pc' = Set(pc, w, "link")
    /\ observed' = {}
    /\ UNCHANGED <<alerts, clusters, k, created, coreVars>>

\* lines 139-148: attach the cluster's alerts, commit; next cluster, or
\* return after the last one
RebuildLink(w) ==
    /\ pc[w] = "link"
    /\ alerts' = LinkAlerts(alerts, clusters[w][k[w]], inc[w])
    /\ IF k[w] < Len(clusters[w])
       THEN /\ pc' = Set(pc, w, "add")
            /\ k' = Set(k, w, k[w] + 1)
            /\ created' = Set(created, w, created[w] + 1)
            /\ inc' = Set(inc, w, NULL)
            /\ UNCHANGED clusters
       ELSE /\ pc' = Set(pc, w, "idle")
            /\ k' = Set(k, w, 0)
            /\ created' = Set(created, w, 0)
            /\ inc' = Set(inc, w, NULL)
            /\ clusters' = Set(clusters, w, <<>>)
    /\ observed' = {}
    /\ UNCHANGED <<incidents, coreVars>>

\* GET /incidents: every incident with the alerts linked to it (and, as
\* auxiliary data, the cluster it was created for)
ListIncidents ==
    /\ observed' = {[id |-> i.id, cluster |-> i.cluster,
                     alerts |-> {a.id : a \in {b \in alerts : b.incident_id = i.id}}] :
                    i \in incidents}
    /\ UNCHANGED <<alerts, incidents, pc, clusters, k, inc, created, coreVars>>

\* the alerts ingested while rebuilds interleave
ConcInputs == {1, 7}

NextConc ==
    \/ \E i \in ConcInputs : IngestAlert(i)
    \/ \E w \in Threads : RebuildDelete(w)
    \/ \E w \in Threads : RebuildRead(w)
    \/ \E w \in Threads : RebuildAdd(w)
    \/ \E w \in Threads : RebuildLink(w)
    \/ ListIncidents

SpecConc == Init /\ [][NextConc]_vars

---------------------------------------------------------------------------
(* Claims about the store (checked under Spec and SpecConc).               *)

AlertIds(als) == {a.id : a \in als}
LinkedTo(als, id) == {a.id : a \in {b \in als : b.incident_id = id}}

\* C2: a rebuild leaves the set of alerts of the store as it was, whether
\* or not earlier rebuilds have linked them to incidents.
C2_RebuildKeepsAlerts ==
    [][RebuildIncidents => AlertIds(alerts') = AlertIds(alerts)]_vars

\* the store right after a rebuild, as claim C3 describes it
C3_Rebuilt ==
    LET cs == ClustersOf(alerts)
    IN  /\ Cardinality(incidents) = Len(cs)
        /\ \A j \in DOMAIN cs :
              Cardinality({i \in incidents : LinkedTo(alerts, i.id) = ClusterIds(cs[j])}) = 1
        /\ \A a \in alerts :
              \E i \in incidents : i.id = a.incident_id /\ a.id \in i.cluster
        /\ \A i \in incidents :
              i.status = "open" /\ i.analyst_notes = <<>> /\ i.analyst_verdict = "unknown"
        /\ alerts = {} => incidents = {}

\* C3: when a rebuild run on its own completes, the store holds exactly
\* one incident per cluster of the alerts, all of them new; every alert is
\* linked to the incident of its cluster; with no alerts there is no
\* incident.
C3_RebuildOnePerCluster ==
    [][RebuildIncidents => C3_Rebuilt']_vars

\* C3 witness: two incidents, each alert linked to the incident created
\* for its cluster.
C3_Witness ==
    /\ Cardinality(incidents) >= 2
    /\ alerts # {}
    /\ \A a \in alerts : \E i \in incidents : i.id = a.incident_id /\ a.id \in i.cluster

\* C4: no listing returns an incident to which some alert of its cluster
\* is not linked.
C4_NoPartialIncident ==
    \A o \in observed : o.cluster \subseteq o.alerts

\* C5: at most one rebuild is in flight at a time, and once none is, no
\* two incidents stand for the same cluster.
C5_RebuildsSerialized ==
    /\ Cardinality({w \in Threads : pc[w] # "idle"}) <= 1
    /\ (\A w \in Threads : pc[w] = "idle") =>
          \A i, j \in incidents : i.cluster = j.cluster => i = j

\* C6: under update_incident and simulate_remediate the status of an
\* incident stays one of open/triaged/closed and moves only from open to
\* triaged (remediation) or from open or triaged to closed (update).
C6_StatusLifecycle ==
    [][/\ (\E id \in RequestIds, body \in Patches : UpdateIncident(id, body)) =>
             \A i \in incidents, j \in incidents' : i.id = j.id =>
                 /\ j.status \in {"open", "triaged", "closed"}
                 /\ \/ j.status = i.status
                    \/ i.status \in {"open", "triaged"} /\ j.status = "closed"
       /\ (\E id \in RequestIds, payload \in Remediations : SimulateRemediate(id, payload)) =>
             \A i \in incidents, j \in incidents' : i.id = j.id =>
                 /\ j.status \in {"open", "triaged", "closed"}
                 /\ \/ j.status = i.status
                    \/ i.status = "open" /\ j.status = "triaged"
      ]_vars

IsPrefix(s, t) == Len(s) <= Len(t) /\ \A n \in DOMAIN s : s[n] = t[n]

\* C7: update_incident and simulate_remediate leave the notes an incident
\* had as a prefix of its notes; a successful simulate_remediate appends
\* exactly the one line "[SIMULATED ACTION] <action> executed.".
C7_NotesAppendOnly ==
    [][/\ (\E id \in RequestIds, body \in Patches : UpdateIncident(id, body)) =>
             \A i \in incidents, j \in incidents' : i.id = j.id =>
                 IsPrefix(i.analyst_notes, j.analyst_notes)
       /\ \A id \in RequestIds, payload \in Remediations : SimulateRemediate(id, payload) =>
             \A i \in incidents, j \in incidents' : i.id = j.id =>
                 /\ IsPrefix(i.analyst_notes, j.analyst_notes)
                 /\ Len(j.analyst_notes) <= Len(i.analyst_notes) + 1
                 /\ (i.id = id /\ "action" \in DOMAIN payload /\ payload.action # "") =>
                       j.analyst_notes = i.analyst_notes \o
                          << <<"\n[SIMULATED ACTION] ", payload.action, " executed.">> >>
      ]_vars

\* C7 witness: an incident whose notes hold two simulated-action lines and
\* which an update carrying analyst_notes has since closed.
C7_Witness ==
    \E i \in incidents :
        /\ Len(i.analyst_notes) = 2
        /\ i.status = "closed"

\* the alert types of the alerts linked to an incident
C14_Types(id) == {a.alert_type : a \in {b \in alerts : b.incident_id = id}}
\* the first step naming an action when the table entries are gone through
\* in an order of the types
C14_FirstWith(order, action) ==
    LET n == CHOOSE m \in DOMAIN order :
                 /\ order[m] \in DOMAIN PLAYBOOKS
                 /\ \E s \in Range(PLAYBOOKS[order[m]]) : s.action = action
                 /\ \A l \in 1..(m - 1) :
                       order[l] \in DOMAIN PLAYBOOKS =>
                           \A s \in Range(PLAYBOOKS[order[l]]) : s.action # action
        entry == PLAYBOOKS[order[n]]
    IN  entry[CHOOSE x \in DOMAIN entry :
                 entry[x].action = action /\ \A y \in 1..(x - 1) : entry[y].action # action]

\* C14: the steps get_playbook returns for an incident hold no action
\* twice; each comes from the table entry of an alert type of the
\* incident; every action of such an entry is there exactly once, with
\* the step that names it first in iteration order.
C14_PlaybookDedup ==
    (output.fn = "get_playbook" /\ output.out.raised = "none") =>
        LET steps == output.out.val
            types == C14_Types(output.args[1])
            order == output.args[2]
        IN  /\ \A i, j \in DOMAIN steps : i # j => steps[i].action # steps[j].action
            /\ \A i \in DOMAIN steps :
                  \E t \in types \cap DOMAIN PLAYBOOKS : steps[i] \in Range(PLAYBOOKS[t])
            /\ \A t \in types \cap DOMAIN PLAYBOOKS :
                  \A s \in Range(PLAYBOOKS[t]) :
                      Cardinality({i \in DOMAIN steps : steps[i].action = s.action}) = 1
            /\ \A i \in DOMAIN steps : steps[i] = C14_FirstWith(order, steps[i].action)

\* C14 witness: get_playbook answered for an incident with two alert
\* types whose table entries share an action, and returned the step of the
\* type gone through first.
C14_Witness ==
    /\ output.fn = "get_playbook"
    /\ output.out.raised = "none"
    /\ C14_Types(output.args[1]) = {"c2_outbound", "suspicious_powershell"}
    /\ output.args[2] = <<"suspicious_powershell", "c2_outbound">>
    /\ \E i \in DOMAIN output.out.val :
          output.out.val[i] = [action |-> "isolate_host", risk |-> "high",
                               impact |-> "endpoint is quarantined"]
    /\ Len(output.out.val) = 3

\* C16: simulate_remediate with an unknown incident_id (404) or a missing
\* or empty action (400) changes no incident and no alert; on success it
\* changes only analyst_notes and status of the incident it names, status
\* becoming triaged exactly when it was open, and leaves every other
\* incident and every alert as they were.
C16_RemediateFrame ==
    [][\A id \in RequestIds, payload \in Remediations : SimulateRemediate(id, payload) =>
          /\ alerts' = alerts
          /\ IF ~HasIncident(id) \/ "action" \notin DOMAIN payload \/ payload.action = ""
             THEN incidents' = incidents
             ELSE /\ {j.id : j \in incidents'} = {i.id : i \in incidents}
                  /\ Cardinality(incidents') = Cardinality(incidents)
                  /\ \A i \in incidents, j \in incidents' : i.id = j.id =>
                        IF i.id # id THEN j = i
                        ELSE /\ \A c \in DOMAIN i \ {"analyst_notes", "status"} : j[c] = i[c]
                             /\ j.analyst_notes # i.analyst_notes
                             /\ j.status = (IF i.status = "open" THEN "triaged" ELSE i.status)
      ]_vars

\* C16 witness: of two incidents one carries a simulated-action line and a
\* status other than triaged, the other is as the rebuild created it, and
\* the alerts are still linked.
C16_Witness ==
    \E i, j \in incidents :
        /\ i.id # j.id
        /\ i.analyst_notes # <<>> /\ i.status = "in_progress"
        /\ j.analyst_notes = <<>> /\ j.status = "open"
        /\ \A a \in alerts : a.incident_id \in {i.id, j.id}
        /\ Cardinality(alerts) = 2

=============================================================================
